---------------------------- MODULE Spec2Model ----------------------------
(***************************************************************************)
(* A model of sumogen's demand generator (src/sumogen/demandgen): the POI  *)
(* selector (get_core_pois, get_pois), the preference model                 *)
(* (get_poi_distribution, Pedestrian.__init__), the itinerary scheduler     *)
(* (generate_path_sequence, generate_trip, generate_trips) and the schedule *)
(* emitter (store_routes).                                                  *)
(*                                                                          *)
(* The routing oracle (sumolib's getShortestPath) is an input: a            *)
(* reachability relation and a table of walking durations over the edges.   *)
(* The two random generators (random, numpy.random) are Mersenne Twisters:  *)
(* seeded, a draw is computed from the outputs of the generator for that    *)
(* seed (tabulated for the seeds tried); unseeded (seed=None, the default), *)
(* every draw is arbitrary.                                                 *)
(***************************************************************************)
EXTENDS Integers, Sequences, FiniteSets, TLC

VARIABLES
    \* ---- DemandGenerator parameters and the random generators
    seed,           \* self.seed (None or an integer)
    rnd_k,          \* outputs taken so far from the seeded generator of `random`
    np_k,           \* outputs the constructor took from the seeded numpy.random
    \* ---- routing oracle and POI selection
    reach,          \* pairs <<a, b>> for which get_path(a, b)[0] is not None
    nr_pois,        \* self.nr_pois
    nr_core_pois,   \* self.nr_core_pois
    edges,          \* get_pois: the list `edges` (shrinks as candidates are examined)
    pool,           \* get_core_pois: the sampled candidates
    core_pois,      \* get_pois: the list returned by get_core_pois
    pois,           \* get_pois: the list `pois`
    pc_poi,         \* position inside get_pois
    err,            \* the exception that ended the run ("" when none)
    run,            \* 1 for the first run of the program, 2 for a second run
    first_run,      \* what the first run produced, kept to compare the second with
    \* ---- preference model and population (generate_pedestrians)
    favorites,          \* self.favorites
    common_favorites,   \* self.common_favorites
    nr_pedestrians,     \* generate_pedestrians: the argument
    gen,                \* generate_pedestrians: home, level, daily_time of this iteration
    poi_distr,          \* generate_pedestrians: the result of get_poi_distribution
    peds,               \* the list of Pedestrian objects
    pc_gen,             \* position inside generate_pedestrians
    \* ---- itinerary scheduler (generate_trips)
    days,                   \* generate_trips: the argument
    week_cycle,             \* self.week_cycle
    day_night_cycle,        \* the day_night_cycle argument of the constructor
    average_stay_duration,  \* self.average_stay_duration
    walk,                   \* get_duration of a leg the oracle has a path for
    day,                    \* generate_trips: the day being generated (-1: the warm-up day)
    ped_i,                  \* generate_trips: position of `ped` in pedestrians (1-based)
    paths,                  \* generate_path_sequence: the list `paths`
    durations,              \* generate_path_sequence: the list `durations`
    trips,                  \* generate_trips: the list `trips`
    last_trip,              \* the Trip generate_trip has just returned (NoTrip otherwise)
    pc_trip,                \* position inside generate_trips
    \* ---- emitter (store_trips, store_routes)
    trips_file,     \* the person elements of the trips file
    router_out,     \* the person elements duarouter wrote to the routes file
    routes_file,    \* the person elements of the routes file store_routes leaves
    pc_store        \* which of store_trips and store_routes have run

\* the generators
rngVars == <<seed, rnd_k, np_k>>
\* the POI selector
poiVars == <<reach, nr_pois, nr_core_pois, edges, pool, core_pois, pois, pc_poi>>
\* the two-run harness
runVars == <<run, first_run>>
\* the population generator
genVars == <<favorites, common_favorites, nr_pedestrians, gen, poi_distr, pc_gen>>

\* the scheduler: what it is given
tripArgs == <<days, week_cycle, day_night_cycle, average_stay_duration, walk>>
\* the scheduler
tripVars == <<tripArgs, day, ped_i, paths, durations, trips, last_trip, pc_trip>>

\* the emitter
storeVars == <<trips_file, router_out, routes_file, pc_store>>

vars == <<rngVars, poiVars, runVars, genVars, tripVars, storeVars, peds, err>>

-----------------------------------------------------------------------------
(* Bounds of the model *)

\* number of edges in the largest pedestrian-accessible component
NrEdges == 5
\* largest requested number of POIs (nr_pois); 0 means "all"
MaxNrPois == 3
\* largest seed tried
MaxSeed == 1
\* number of POIs the population is generated over
NrPois == 3
\* largest activity level (self.activity_levels)
MaxLevel == 2
\* largest number of pedestrians asked of generate_pedestrians
MaxGenPeds == 1
\* largest number of pedestrians handed to generate_trips
NrPeds == 2
\* largest number of days handed to generate_trips
MaxDays == 2
\* largest walking duration of a leg, in seconds
MaxWalk == 1
\* largest average_stay_duration, in seconds
MaxStay == 1
\* largest number of pedestrians times days handed to generate_trips
MaxPedDays == 2
\* most Trips in a list handed to store_trips
MaxStored == 2

-----------------------------------------------------------------------------
(* Generic helpers *)

Range(s) == {s[i] : i \in 1..Len(s)}

\* list.remove / list.pop(i) on position i (1-based)
RemoveAt(s, i) == SubSeq(s, 1, i - 1) \o SubSeq(s, i + 1, Len(s))

Max(a, b) == IF a >= b THEN a ELSE b

\* sum(list)
RECURSIVE Sum(_)
Sum(s) == IF s = <<>> THEN 0 ELSE s[1] + Sum(Tail(s))

\* list.index(x): the first position holding x (1-based), 0 when absent
IndexOf(s, x) ==
    IF x \in Range(s) THEN CHOOSE i \in 1..Len(s) : s[i] = x /\ \A j \in 1..(i - 1) : s[j] # x
    ELSE 0

-----------------------------------------------------------------------------
(* Random generators *)

\* seed=None: the generators are left seeded from system entropy
None == -1

\* n.bit_length()
RECURSIVE BitLength(_)
BitLength(n) == IF n = 0 THEN 0 ELSE 1 + BitLength(n \div 2)

\* 2 ** b
RECURSIVE Pow2(_)
Pow2(b) == IF b = 0 THEN 1 ELSE 2 * Pow2(b - 1)

\* random.seed(s) (line 100), one row for each of s = 0, 1, 2: the high byte
\* of the first 32-bit outputs of the generator, which is what
\* random.getrandbits(8) returns call after call
RandomBytes ==
    << <<216, 98, 194, 227, 107, 10, 66, 247, 130, 124, 103, 235, 200, 212,
         77, 247, 122, 91, 149, 228, 232, 55, 129, 35, 72, 35, 193, 24, 158,
         204, 64, 252>>,
       <<34, 145, 216, 205, 195, 16, 65, 30, 126, 194, 115, 120, 166, 97,
         201, 53, 24, 124, 7, 228, 213, 99, 110, 155, 195, 196, 0, 178, 114,
         68, 184, 205>>,
       <<244, 220, 242, 217, 14, 23, 21, 92, 213, 43, 188, 207, 171, 218,
         78, 64, 155, 54, 155, 9, 148, 174, 40, 255, 110, 163, 100, 205,
         185, 220, 254, 130>> >>

\* np.random.seed(s) (line 101), one row for each of s = 0, 1, 2: the low
\* byte of the first 32-bit outputs of the generator
NumpyBytes ==
    << <<172, 47, 117, 192, 67, 251, 195, 103, 9, 211, 21, 242, 36, 87, 70,
         216, 88, 140, 58, 193, 230, 39, 87, 174, 88, 81, 165, 25, 77, 72,
         9, 148>>,
       <<37, 235, 140, 72, 255, 137, 203, 133, 79, 192, 144, 129, 204, 71,
         237, 252, 134, 25, 178, 20, 254, 101, 146, 212, 139, 252, 234, 156,
         157, 142, 50, 68>>,
       <<168, 15, 237, 72, 22, 43, 210, 75, 104, 7, 162, 177, 95, 75, 213,
         47, 63, 31, 218, 148, 124, 116, 37, 167, 195, 102, 4, 170, 107, 51,
         103, 38>> >>

\* The high byte of output k (k = 0, 1, ...) of `random` seeded with s.
Stream(s, k) == RandomBytes[s + 1][k + 1]

\* The low byte of output k of numpy.random seeded with s.
NpStream(s, k) == NumpyBytes[s + 1][k + 1]

\* random._randbelow(n) for 0 < n < 256, taking outputs from position k on:
\* getrandbits(n.bit_length()) is the high bits of one output, and is taken
\* again while it is not below n.  The value, and the position after it.
RECURSIVE randbelow(_, _, _)
randbelow(s, k, n) ==
    LET r == Stream(s, k) \div Pow2(8 - BitLength(n))
    IN  IF r < n THEN [value |-> r, next |-> k + 1]
        ELSE randbelow(s, k + 1, n)

\* random.randrange(n), and the index random.choice takes in a list of n
\* entries: the possible values with the position each leaves the generator
\* at (unseeded: any index, and no position is followed).
DrawBelow(k, n) ==
    IF seed = None THEN {[value |-> v, next |-> k] : v \in 0..(n - 1)}
    ELSE {randbelow(seed, k, n)}

\* random.sample(population, size) for a population of at most 21 entries:
\* size times over, an index below the number of candidates left is drawn,
\* the candidate at it is taken and the last candidate is moved into its
\* place.  `left` holds the candidates left.
RECURSIVE sample(_, _, _)
sample(left, size, k) ==
    IF size = 0 THEN {[value |-> <<>>, next |-> k]}
    ELSE UNION { { [value |-> <<left[j.value + 1]>> \o rest.value,
                    next |-> rest.next] :
                     rest \in sample(SubSeq([left EXCEPT ![j.value + 1] = left[Len(left)]],
                                            1, Len(left) - 1),
                                     size - 1, j.next) } :
                 j \in DrawBelow(k, Len(left)) }

\* numpy's random_interval(max) for max < 256, taking outputs from position
\* k on: an output masked to the bits of max, taken again while it is above
\* max; for max = 0 no output is taken.
RECURSIVE random_interval(_, _, _)
random_interval(s, k, max) ==
    IF max = 0 THEN [value |-> 0, next |-> k]
    ELSE LET value == NpStream(s, k) % Pow2(BitLength(max))
         IN  IF value <= max THEN [value |-> value, next |-> k + 1]
             ELSE random_interval(s, k + 1, max)

\* the possible results of random_interval(max) (unseeded: any of 0..max)
NpInterval(k, max) ==
    IF seed = None THEN {[value |-> v, next |-> k] : v \in 0..max}
    ELSE {random_interval(seed, k, max)}

\* x with the entries at i and j (0-based) exchanged
Swap(x, i, j) == [x EXCEPT ![i + 1] = x[j + 1], ![j + 1] = x[i + 1]]

\* np.random.shuffle(x) with the positions i, i-1, ..., 1 still to go:
\* for i in reversed(range(1, n)): j = random_interval(i); swap x[i], x[j]
RECURSIVE shuffle(_, _, _)
shuffle(x, i, k) ==
    IF i < 1 THEN {[value |-> x, next |-> k]}
    ELSE UNION { shuffle(Swap(x, i, j.value), i - 1, j.next) :
                 j \in NpInterval(k, i) }

\* np.random.permutation(n): arange(n), shuffled
permutation(n, k) == shuffle([i \in 1..n |-> i - 1], n - 1, k)

\* np.random.choice(a, size=size, replace=False) for size <= len(a): the
\* entries of a at permutation(len(a))[:size]
np_choice(a, size, k) ==
    { [value |-> [i \in 1..size |-> a[p.value[i] + 1]], next |-> p.next] :
        p \in permutation(Len(a), k) }

-----------------------------------------------------------------------------
(* Routing oracle *)

Edges == 1..NrEdges

\* get_connected_edges: the edges of the largest component, in graph order
AllEdges == [i \in 1..NrEdges |-> i]

\* has_path(edge_from, edge_to) with with_duarouter=False
has_path(edge_from, edge_to) == <<edge_from, edge_to>> \in reach

\* the test both get_core_pois and get_pois apply to a pair of edges
Bidirectional(a, b) == has_path(a, b) /\ has_path(b, a)

-----------------------------------------------------------------------------
(* get_core_pois *)

\* poi_G: an undirected edge for every pair of the pool connected both ways;
\* only add_edge adds nodes, so a candidate with no partner is not a node.
PoiGraphAdj(p, q) == {v \in p : v # q /\ Bidirectional(q, v)}

PoiGraphNodes(p) == {q \in p : PoiGraphAdj(p, q) # {}}

\* nx.find_cliques picks as pivot a node of subg with the most neighbours in
\* cand (max over a set: ties fall to set iteration order)
Pivots(p, subg) ==
    {u \in subg : \A w \in subg :
        Cardinality(subg \cap PoiGraphAdj(p, u))
            >= Cardinality(subg \cap PoiGraphAdj(p, w))}

\* list(nx.find_cliques(poi_G))[0]: the first maximal clique the search
\* yields.  The search descends from all nodes: it pops some q out of
\* cand - adj[pivot] (set.pop: iteration order of a set of edge-id strings,
\* which the interpreter's string hashing decides per process), appends q to
\* the clique and continues inside adj[q] until nothing is left.  The result
\* is kept as its first element and its member set.
RECURSIVE FirstCliques(_, _, _, _)
FirstCliques(p, subg, first, members) ==
    IF subg = {} THEN {[first |-> first, members |-> members]}
    ELSE UNION { FirstCliques(p, subg \cap PoiGraphAdj(p, q),
                              IF members = {} THEN q ELSE first,
                              members \cup {q}) :
                 q \in UNION {subg \ PoiGraphAdj(p, u) : u \in Pivots(p, subg)} }

find_cliques_first(p) == FirstCliques(p, PoiGraphNodes(p), 0, {})

NoCore == [first |-> 0, members |-> {}]

\* get_pois line 207-208: edges = get_connected_edges(); core_pois =
\* get_core_pois(edges).  The sample is larger than the population:
\* np.random.choice raises ValueError.
GetCorePoisTooFew ==
    /\ pc_poi = "start"
    /\ nr_core_pois > Len(edges)
    /\ pc_poi' = "error"
    /\ err' = "ValueError"
    /\ UNCHANGED <<storeVars, rngVars, reach, nr_pois, nr_core_pois, edges,
                   pool, core_pois, pois, runVars, genVars, tripVars, peds>>

\* No two sampled candidates are connected both ways: poi_G is empty,
\* find_cliques yields nothing and [0] raises IndexError.
GetCorePoisNoClique ==
    /\ pc_poi = "start"
    /\ nr_core_pois <= Len(edges)
    /\ \E c \in np_choice(edges, nr_core_pois, np_k) :
        /\ PoiGraphNodes(Range(c.value)) = {}
        /\ pool' = Range(c.value)
        /\ np_k' = c.next
    /\ pc_poi' = "error"
    /\ err' = "IndexError"
    /\ UNCHANGED <<storeVars, seed, rnd_k, reach, nr_pois, nr_core_pois, edges,
                   core_pois, pois, runVars, genVars, tripVars, peds>>

\* get_core_pois returns the first clique found.
GetCorePois ==
    /\ pc_poi = "start"
    /\ nr_core_pois <= Len(edges)
    /\ \E c \in np_choice(edges, nr_core_pois, np_k) :
        /\ PoiGraphNodes(Range(c.value)) # {}
        /\ pool' = Range(c.value)
        /\ \E clique \in find_cliques_first(Range(c.value)) : core_pois' = clique
        /\ np_k' = c.next
    /\ pc_poi' = "core"
    /\ UNCHANGED <<storeVars, seed, rnd_k, reach, nr_pois, nr_core_pois, edges,
                   pois, err, runVars, genVars, tripVars, peds>>

-----------------------------------------------------------------------------
(* get_pois *)

\* (mutation of GrowCond: the count test off by one)
GrowCondOffByOne(n_edges, n_pois) ==
    n_edges > 0 /\ (nr_pois = 0 \/ n_pois <= nr_pois)

\* (mutation of GrowCond: the pool of edges is not tested)
GrowCondIgnoresEdges(n_edges, n_pois) ==
    nr_pois = 0 \/ n_pois < nr_pois

\* the loop condition of the growth loop (line 213-214)
GrowCond(n_edges, n_pois) ==
    n_edges > 0 /\ (nr_pois = 0 \/ n_pois < nr_pois)

\* (mutation of Admits: only the path to the anchor is asked for)
AdmitsOneWay(poi_candidate) == has_path(poi_candidate, core_pois.first)

\* the admission test (line 230-231)
Admits(poi_candidate) == Bidirectional(poi_candidate, core_pois.first)

\* get_core_pois has returned (its locals are gone); nr_edges and pois are set
GrowBegin ==
    /\ pc_poi = "core"
    /\ pc_poi' = "grow"
    /\ pool' = {}
    /\ pois' = <<>>
    /\ UNCHANGED <<storeVars, rngVars, reach, nr_pois, nr_core_pois, edges,
                   core_pois, err, runVars, genVars, tripVars, peds>>

\* one iteration: draw a random edge, remove it, admit it if it connects
GrowStep ==
    /\ pc_poi = "grow"
    /\ GrowCond(Len(edges), Len(pois))
    /\ \E i \in DrawBelow(rnd_k, Len(edges)) :
        LET poi_candidate == edges[i.value + 1] IN
        /\ edges' = RemoveAt(edges, i.value + 1)
        /\ pois' = IF Admits(poi_candidate)
                   THEN Append(pois, poi_candidate) ELSE pois
        /\ rnd_k' = i.next
    /\ UNCHANGED <<storeVars, seed, np_k, reach, nr_pois, nr_core_pois, pool,
                   core_pois, pc_poi, err, runVars, genVars, tripVars, peds>>

\* the loop ends and get_pois returns pois
GrowReturn ==
    /\ pc_poi = "grow"
    /\ ~GrowCond(Len(edges), Len(pois))
    /\ pc_poi' = "done"
    /\ UNCHANGED <<storeVars, rngVars, reach, nr_pois, nr_core_pois, edges,
                   pool, core_pois, pois, err, runVars, genVars, tripVars, peds>>

-----------------------------------------------------------------------------
(* Specification of POI selection, default (unseeded) generators *)

\* reachability of a network whose edges 1..j lie on one side of a one-way
\* (or missing) link and the others on the far side
Reach(j, oneway) ==
    {<<a, b>> \in Edges \X Edges :
        \/ (a <= j) = (b <= j)
        \/ oneway /\ a <= j /\ b > j}

NoFirstRun == [pois |-> <<>>, core |-> NoCore, outcome |-> ""]

\* no iteration of generate_pedestrians under way
NoGen == [home |-> 0, level |-> 0, daily_time |-> 0]

\* no distribution computed
NoDistr == [num |-> <<>>, den |-> 0]

\* no Trip built yet
NoTrip == [trip_id |-> <<>>, ped_id |-> -1, start_time |-> 0, paths |-> <<>>,
           times |-> <<>>, durations |-> <<>>, wait_times |-> <<>>]

\* nothing has been written
IdleStore ==
    /\ trips_file = <<>>
    /\ router_out = <<>>
    /\ routes_file = <<>>
    /\ pc_store = "idle"

\* generate_trips is not running
IdleTrips ==
    /\ days = 0
    /\ week_cycle = TRUE
    /\ day_night_cycle = TRUE
    /\ average_stay_duration = 1
    /\ walk = <<>>
    /\ day = -1
    /\ ped_i = 1
    /\ paths = <<>>
    /\ durations = <<>>
    /\ trips = <<>>
    /\ last_trip = NoTrip
    /\ pc_trip = "idle"

InitPoiWith(seeds) ==
    /\ seed \in seeds
    /\ rnd_k = 0
    /\ np_k = 0
    /\ \E j \in 0..NrEdges, oneway \in BOOLEAN : reach = Reach(j, oneway)
    /\ nr_pois \in 0..MaxNrPois
    /\ nr_core_pois \in 2..(NrEdges + 1)
    /\ edges = AllEdges
    /\ pool = {}
    /\ core_pois = NoCore
    /\ pois = <<>>
    /\ pc_poi = "start"
    /\ err = ""
    /\ run = 1
    /\ first_run = NoFirstRun
    /\ favorites = TRUE
    /\ common_favorites = TRUE
    /\ nr_pedestrians = 0
    /\ gen = NoGen
    /\ poi_distr = NoDistr
    /\ peds = <<>>
    /\ pc_gen = "idle"
    /\ IdleTrips
    /\ IdleStore

InitPoi == InitPoiWith({None})

NextPoi ==
    \/ GetCorePoisTooFew
    \/ GetCorePoisNoClique
    \/ GetCorePois
    \/ GrowBegin
    \/ GrowStep
    \/ GrowReturn

SpecPoi == InitPoi /\ [][NextPoi]_vars

-----------------------------------------------------------------------------
(* Preference model: get_poi_distribution *)

\* normpdf(x, n/2, n/4) for x in range(n), n = 1..7, in thousandths (rounded)
NormPdfQuarter ==
    << <<216>>,
       <<108, 798>>,
       <<72, 426, 426>>,
       <<54, 242, 399, 242>>,
       <<43, 155, 295, 295, 155>>,
       <<36, 109, 213, 266, 213, 109>>,
       <<31, 82, 158, 219, 219, 158, 82>> >>

\* normpdf(x, n/2, n/16) for x in range(n), n = 1..7, in thousandths
\* (rounded).  normpdf is positive for every argument (the smallest value
\* here is about 1e-14): an entry that rounds to 0 is kept at one unit, so
\* that a weight is zero in the model only if it is zero in the program.
NormPdfSixteenth ==
    << <<1>>,
       <<1, 3192>>,
       <<1, 61, 61>>,
       <<1, 1, 1596, 1>>,
       <<1, 1, 355, 355, 1>>,
       <<1, 1, 30, 1064, 30, 1>>,
       <<1, 1, 3, 475, 475, 3, 1>> >>

\* normpdf(x, n/2, n/q) for the two calls the generator makes (q = 4, 16)
normpdf(x, n, q) ==
    IF q = 4 THEN NormPdfQuarter[n][x + 1] ELSE NormPdfSixteenth[n][x + 1]

\* self.common_poi_distr (line 122-125)
common_poi_distr == [i \in 1..Len(pois) |-> normpdf(i - 1, Len(pois), 4)]

\* personal_distr (line 250-251)
personal_distr == [i \in 1..Len(pois) |-> normpdf(i - 1, Len(pois), 16)]

\* the combined weights before normalization (line 241-255), for every
\* shuffle random.sample can return from position k on
CombinedWeights(k) ==
    LET n == Len(pois)
        base == [i \in 1..n |-> IF common_favorites THEN common_poi_distr[i] ELSE 0]
    IN  IF favorites
        THEN { [value |-> [i \in 1..n |-> base[i] + shuffled_distr.value[i]],
                next |-> shuffled_distr.next] :
                 shuffled_distr \in sample(personal_distr, n, k) }
        ELSE {[value |-> base, next |-> k]}

\* line 258: every weight is divided by their sum.  A distribution is kept
\* as exact fractions num[i] / den.  The quotients of the program are binary
\* floating-point numbers, each the one nearest to num[i] / den, and their
\* sum as sum() adds it up is 1 or a few units in the last place away from
\* it.  The fractions do not hold the rounding, so both outcomes it can have
\* are kept: `below` says that the sum of the quotients came out below 1.
\* A single weight divided by itself is exactly 1.
Normalized(w) ==
    { [num |-> w, den |-> Sum(w), below |-> b] :
        b \in IF Len(w) = 1 THEN {FALSE} ELSE BOOLEAN }

\* line 259-261: when the sum came out below 1 an index is drawn and the
\* deficit (some 1e-16) is added to its entry, which the fractions are too
\* coarse to show; otherwise nothing is drawn
Topped(d, k) ==
    IF d.below
    THEN { [value |-> [num |-> d.num, den |-> d.den], next |-> index.next] :
             index \in DrawBelow(k, Len(d.num)) }
    ELSE { [value |-> [num |-> d.num, den |-> d.den], next |-> k] }

\* get_poi_distribution called at position k: the possible results, given
\* that the sum of the weights is not 0
get_poi_distribution(k) ==
    UNION { UNION { Topped(d, c.next) : d \in Normalized(c.value) } :
            c \in CombinedWeights(k) }

-----------------------------------------------------------------------------
(* Pedestrian.__init__ *)

\* line 86-89: index = random.randrange(len(pois)-1) (pois without home);
\* removed = poi_distr.pop(index); poi_distr[index+1] += removed
FoldHome(ps, distr, home, index) ==
    LET removed == distr.num[index + 1]
        short == RemoveAt(distr.num, index + 1)
    IN  [distr EXCEPT !.num = [short EXCEPT ![index + 2] = @ + removed]]

\* (mutation of Pedestrian: home stays in the POI list)
PedestrianKeepsHome(id, home, ps, distr, level, daily_travel_time, index) ==
    [id |-> id, home |-> home, level |-> level, trip_count |-> 0,
     daily_travel_time |-> daily_travel_time, remaining_time |-> 0,
     pois |-> ps, poi_distr |-> distr]

\* Pedestrian(id, home, pois, poi_distr, level, daily_travel_time), with
\* the value randrange returns when home is in pois
Pedestrian(id, home, ps, distr, level, daily_travel_time, index) ==
    [id |-> id, home |-> home, level |-> level, trip_count |-> 0,
     daily_travel_time |-> daily_travel_time, remaining_time |-> 0,
     pois |-> IF home \in Range(ps) THEN RemoveAt(ps, IndexOf(ps, home)) ELSE ps,
     poi_distr |-> IF home \in Range(ps) THEN FoldHome(ps, distr, home, index)
                   ELSE distr]

-----------------------------------------------------------------------------
(* generate_pedestrians *)

\* self.day_hours
day_hours == 12

\* level (line 310-311): int(min(activity_levels, max(0, normal(mu, sigma)))),
\* any level from 0 to activity_levels whatever the seed (the normal deviate
\* numpy computes for a seed is not followed)
Levels == 0..MaxLevel

\* daily_time (line 312-313): (day_hours/24) * 24*60*60 * (level^2 * 0.01)
DailyTime(level) == (day_hours * 60 * 60 * level * level) \div 100

\* line 309-317, both bias switches off: every weight is 0 and the
\* normalization divides by zero
GetPoiDistributionFails ==
    /\ pc_gen = "loop"
    /\ Len(peds) < nr_pedestrians
    /\ \E h \in DrawBelow(rnd_k, Len(pois)), level \in Levels :
        /\ gen' = [home |-> pois[h.value + 1], level |-> level,
                   daily_time |-> DailyTime(level)]
        /\ \A c \in CombinedWeights(h.next) : Sum(c.value) = 0
        /\ \E c \in CombinedWeights(h.next) : rnd_k' = c.next
    /\ pc_gen' = "error"
    /\ err' = "ZeroDivisionError"
    /\ UNCHANGED <<storeVars, seed, np_k, poiVars, runVars, tripVars, favorites,
                   common_favorites, nr_pedestrians, poi_distr, peds>>

\* line 309-317: home, level and daily_time are drawn and
\* get_poi_distribution returns
GetPoiDistribution ==
    /\ pc_gen = "loop"
    /\ Len(peds) < nr_pedestrians
    /\ \E h \in DrawBelow(rnd_k, Len(pois)), level \in Levels :
        /\ gen' = [home |-> pois[h.value + 1], level |-> level,
                   daily_time |-> DailyTime(level)]
        /\ \E c \in CombinedWeights(h.next) :
            /\ Sum(c.value) # 0
            /\ \E d \in Normalized(c.value) : \E topped \in Topped(d, c.next) :
                /\ poi_distr' = topped.value
                /\ rnd_k' = topped.next
    /\ pc_gen' = "distr"
    /\ UNCHANGED <<storeVars, seed, np_k, poiVars, runVars, tripVars, favorites,
                   common_favorites, nr_pedestrians, peds, err>>

\* line 320: Pedestrian() with fewer than two POIs besides home:
\* random.randrange(len(pois)-1) raises ValueError
NewPedestrianFails ==
    /\ pc_gen = "distr"
    /\ Len(pois) - 2 <= 0
    /\ pc_gen' = "error"
    /\ err' = "ValueError"
    /\ UNCHANGED <<storeVars, rngVars, poiVars, runVars, tripVars, favorites, common_favorites,
                   nr_pedestrians, gen, poi_distr, peds>>

\* line 320-321: the pedestrian is built and appended
NewPedestrian ==
    /\ pc_gen = "distr"
    /\ Len(pois) - 2 > 0
    /\ \E index \in DrawBelow(rnd_k, Len(pois) - 2) :
        /\ peds' = Append(peds, Pedestrian(Len(peds), gen.home, pois, poi_distr,
                                           gen.level, gen.daily_time, index.value))
        /\ rnd_k' = index.next
    /\ pc_gen' = "loop"
    /\ UNCHANGED <<storeVars, seed, np_k, poiVars, runVars, tripVars, favorites, common_favorites,
                   nr_pedestrians, gen, poi_distr, err>>

\* line 325-326: the loop is over
GenReturn ==
    /\ pc_gen = "loop"
    /\ Len(peds) = nr_pedestrians
    /\ pc_gen' = "done"
    /\ UNCHANGED <<storeVars, rngVars, poiVars, runVars, tripVars, favorites, common_favorites,
                   nr_pedestrians, gen, poi_distr, peds, err>>

\* the POI list get_pois returned, n entries
PoiList(n) == [i \in 1..n |-> i]

InitGen ==
    /\ seed = None
    /\ rnd_k = 0
    /\ np_k = 0
    /\ reach = Edges \X Edges
    /\ nr_pois = 0
    /\ nr_core_pois = 2
    /\ edges = <<>>
    /\ pool = {}
    /\ core_pois = NoCore
    /\ \E n \in 1..NrPois : pois = PoiList(n)
    /\ pc_poi = "done"
    /\ err = ""
    /\ run = 1
    /\ first_run = NoFirstRun
    /\ favorites \in BOOLEAN
    /\ common_favorites \in BOOLEAN
    /\ nr_pedestrians \in 1..MaxGenPeds
    /\ gen = NoGen
    /\ poi_distr = NoDistr
    /\ peds = <<>>
    /\ pc_gen = "loop"
    /\ IdleTrips
    /\ IdleStore

NextGen ==
    \/ GetPoiDistributionFails
    \/ GetPoiDistribution
    \/ NewPedestrianFails
    \/ NewPedestrian
    \/ GenReturn

SpecGen == InitGen /\ [][NextGen]_vars

-----------------------------------------------------------------------------
(* Itinerary scheduler: generate_path_sequence, generate_trip, generate_trips *)

\* round(level/3) (line 342); level/3 is never halfway between two integers
max_trips(level) == (2 * level + 3) \div 6

\* (mutation of WhileCond: the leg count test off by one)
WhileCondOffByOne(n_paths, level, remaining_time) ==
    n_paths = 0 \/ (n_paths <= max_trips(level) /\ remaining_time > 0)

\* (mutation of WhileCond: the loop goes on while either test allows it)
WhileCondEither(n_paths, level, remaining_time) ==
    n_paths = 0 \/ n_paths < max_trips(level) \/ remaining_time > 0

\* the condition of the outward loop (line 350-351)
WhileCond(n_paths, level, remaining_time) ==
    n_paths = 0 \/ (n_paths < max_trips(level) /\ remaining_time > 0)

\* (mutation of HasBudget: a trip is built even with nothing left)
HasBudgetOrNone(remaining_time) == remaining_time >= 0

\* the condition of the trip loops of generate_trips (line 412, 427)
HasBudget(remaining_time) == remaining_time > 0

\* ped.remaining_time is counted in half seconds, so that the
\* daily_travel_time / 2 of line 411 and 423 is exact for every whole
\* daily_travel_time: a number of seconds as a number of half seconds
HalfSeconds(seconds) == 2 * seconds

\* Pedestrian.get_poi: np.random.choice(self.pois, p=self.poi_distr) returns
\* a POI of positive probability
get_poi(ped) ==
    {ped.pois[i] : i \in {j \in 1..Len(ped.pois) : ped.poi_distr.num[j] > 0}}

\* get_duration(source, target), when the oracle has a path
get_duration(source, target) == walk[<<source, target>>]

\* where the next leg starts: home, or the target of the last leg
Source(ped) == IF paths = <<>> THEN ped.home ELSE paths[Len(paths)][2]

\* (mutation of WaitCount: one wait per leg)
WaitCountPerLeg(n_paths) == n_paths

\* size of wait_times (line 374-375)
WaitCount(n_paths) == n_paths - 1

\* np.random.choice(range(self.average_stay_duration * 2), size=n)
WaitTimes(n) == [1..n -> 0..(average_stay_duration * 2 - 1)]

\* round(a/b) of Python 3 for a >= 0 and b > 0: the nearest integer, a half
\* going to the even one
RoundHalfEven(a, b) ==
    LET q == a \div b
        r == a % b
    IN  IF 2 * r < b THEN q
        ELSE IF 2 * r > b THEN q + 1
        ELSE IF q % 2 = 0 THEN q ELSE q + 1

\* line 112: the entry of self.time_distr for every minute when
\* day_night_cycle is off, round(1/(24*60))
flat_weight == RoundHalfEven(1, 24 * 60)

\* self.time_distr sums to 1: with day_night_cycle its entries are sums of
\* three normpdf values divided by their total (line 105-110); without it
\* they are 24*60 times flat_weight
TimeDistrSumsToOne == day_night_cycle \/ 24 * 60 * flat_weight = 1

\* minutes of the day np.random.choice(range(24*60), p=self.time_distr) is
\* taken to return: the first and the last
SampledMinutes == {0, 24 * 60 - 1}

\* the sampled minutes that have a positive entry in self.time_distr
\* (normpdf is positive everywhere)
DrawableMinutes ==
    IF day_night_cycle \/ flat_weight > 0 THEN SampledMinutes ELSE {}

\* (mutation of AfterTrip: the wait times are not charged)
AfterTripNoWaits(remaining_time, duration, wait_times) ==
    remaining_time - HalfSeconds(duration)

\* line 365 and 376: remaining_time after the leg home and the wait times
AfterTrip(remaining_time, duration, wait_times) ==
    remaining_time - HalfSeconds(duration) - HalfSeconds(Sum(wait_times))

\* (mutation of NextTripCount: the counter is left as it is)
SameTripCount(trip_count) == trip_count

\* line 389: pedestrian.trip_count += 1
NextTripCount(trip_count) == trip_count + 1

\* the loop of line 384-385, started from times = [time_start]
RECURSIVE LegTimes(_, _, _, _)
LegTimes(times, n_paths, ds, ws) ==
    IF Len(times) >= n_paths THEN times
    ELSE LegTimes(Append(times, times[Len(times)] + ds[Len(times)] + ws[Len(times)]),
                  n_paths, ds, ws)

\* (mutation of Trip: the departure offset is not added to the day's start)
TripWithoutOffset(trip_id, ped_id, start_time, ps, times, ds, wait_times) ==
    [trip_id |-> trip_id, ped_id |-> ped_id, start_time |-> start_time,
     paths |-> ps, times |-> times, durations |-> ds, wait_times |-> wait_times]

\* Trip.__init__
Trip(trip_id, ped_id, start_time, ps, times, ds, wait_times) ==
    [trip_id |-> trip_id, ped_id |-> ped_id, start_time |-> start_time + times[1],
     paths |-> ps, times |-> times, durations |-> ds, wait_times |-> wait_times]

\* (mutation of SortByStart: the list is returned as generated)
Unsorted(ts) == ts

\* sorted(trips, key=lambda t: t.start_time), a stable sort: the entry at
\* position i goes behind the entries of a smaller start_time and those of
\* the same start_time that stand before it
SortByStart(ts) ==
    LET place(i) ==
            Cardinality({j \in 1..Len(ts) :
                \/ ts[j].start_time < ts[i].start_time
                \/ ts[j].start_time = ts[i].start_time /\ j < i}) + 1
    IN  [at \in 1..Len(ts) |-> ts[CHOOSE i \in 1..Len(ts) : place(i) = at]]

\* the condition of line 422
HalfDay(d) == (week_cycle /\ d % 7 = 0) \/ d % 7 = 1

\* the budget added for day d (line 411, 422-425), in half seconds:
\* daily_travel_time / 2 on the warm-up day (d = -1) and on a half day,
\* daily_travel_time otherwise
Allowance(ped, d) ==
    IF d = -1 \/ HalfDay(d) THEN ped.daily_travel_time
    ELSE HalfSeconds(ped.daily_travel_time)

\* line 411 / 422-425: the day's budget is added to ped.remaining_time
AddAllowance ==
    /\ pc_trip = "allow"
    /\ peds' = [peds EXCEPT ![ped_i].remaining_time = @ + Allowance(peds[ped_i], day)]
    /\ pc_trip' = "loop"
    /\ last_trip' = NoTrip
    /\ UNCHANGED <<storeVars, rngVars, poiVars, runVars, genVars, tripArgs,
                   day, ped_i, paths, durations, trips, err>>

\* generate_trip is running: called by generate_trips ("legs") or on its
\* own ("call")
InTrip == pc_trip \in {"legs", "call"}

\* generate_trip is entered from the trip loop of generate_trips when budget
\* is left (line 412 / 427), or is running already
EntersTrip ==
    \/ pc_trip = "loop" /\ HasBudget(peds[ped_i].remaining_time)
    \/ InTrip

\* line 350-357: one iteration of the outward loop
OutwardLeg ==
    /\ EntersTrip
    /\ WhileCond(Len(paths), peds[ped_i].level, peds[ped_i].remaining_time)
    /\ \E target \in get_poi(peds[ped_i]) :
        LET source == Source(peds[ped_i]) IN
        /\ has_path(source, target)
        /\ paths' = Append(paths, <<source, target>>)
        /\ durations' = Append(durations, get_duration(source, target))
        /\ peds' = [peds EXCEPT ![ped_i].remaining_time =
                                    @ - HalfSeconds(get_duration(source, target))]
    /\ pc_trip' = IF pc_trip = "call" THEN "call" ELSE "legs"
    /\ last_trip' = NoTrip
    /\ UNCHANGED <<storeVars, rngVars, poiVars, runVars, genVars,
                   tripArgs, day, ped_i, trips, err>>

\* line 354 / 362: the oracle has no path for the leg: path[1] is infinite
\* and int() raises OverflowError, which nothing catches
LegFails ==
    /\ EntersTrip
    /\ IF WhileCond(Len(paths), peds[ped_i].level, peds[ped_i].remaining_time)
       THEN \E target \in get_poi(peds[ped_i]) :
                ~has_path(Source(peds[ped_i]), target)
       ELSE ~has_path(Source(peds[ped_i]), peds[ped_i].home)
    /\ pc_trip' = "error"
    /\ err' = "OverflowError"
    /\ last_trip' = NoTrip
    /\ UNCHANGED <<storeVars, rngVars, poiVars, runVars, genVars, tripArgs,
                   day, ped_i, paths, durations, trips, peds>>

\* line 380, the time distribution does not sum to 1: np.random.choice
\* raises ValueError, after the leg home and the wait times were charged
DepartureFails ==
    /\ InTrip
    /\ ~WhileCond(Len(paths), peds[ped_i].level, peds[ped_i].remaining_time)
    /\ has_path(Source(peds[ped_i]), peds[ped_i].home)
    /\ ~TimeDistrSumsToOne
    /\ \E wait_times \in WaitTimes(WaitCount(Len(paths) + 1)) :
        peds' = [peds EXCEPT ![ped_i].remaining_time =
                    AfterTrip(@, get_duration(Source(peds[ped_i]), peds[ped_i].home),
                              wait_times)]
    /\ paths' = <<>>
    /\ durations' = <<>>
    /\ pc_trip' = "error"
    /\ err' = "ValueError"
    /\ last_trip' = NoTrip
    /\ UNCHANGED <<storeVars, rngVars, poiVars, runVars, genVars,
                   tripArgs, day, ped_i, trips>>

\* line 359-367 and generate_trip (line 373-392): the leg home, the wait
\* times, the departure time, the trip id and the Trip; line 413 / 428: the
\* Trip is dropped on the warm-up day and appended to trips otherwise
FinishTrip ==
    /\ InTrip
    /\ ~WhileCond(Len(paths), peds[ped_i].level, peds[ped_i].remaining_time)
    /\ has_path(Source(peds[ped_i]), peds[ped_i].home)
    /\ TimeDistrSumsToOne
    /\ LET ped == peds[ped_i]
           source == Source(ped)
           ps == Append(paths, <<source, ped.home>>)
           ds == Append(durations, get_duration(source, ped.home))
       IN  \E wait_times \in WaitTimes(WaitCount(Len(ps))), minute \in DrawableMinutes :
            LET times == LegTimes(<<minute * 60>>, Len(ps), ds, wait_times)
                trip == Trip(<<ped.id, ped.trip_count>>, ped.id, day * 24 * 60 * 60,
                             ps, times, ds, wait_times)
            IN  /\ peds' = [peds EXCEPT
                              ![ped_i].remaining_time =
                                  AfterTrip(@, get_duration(source, ped.home), wait_times),
                              ![ped_i].trip_count = NextTripCount(@)]
                /\ last_trip' = trip
                /\ trips' = IF day = -1 \/ pc_trip = "call" THEN trips
                            ELSE Append(trips, trip)
    /\ paths' = <<>>
    /\ durations' = <<>>
    /\ pc_trip' = IF pc_trip = "call" THEN "returned" ELSE "loop"
    /\ UNCHANGED <<storeVars, rngVars, poiVars, runVars, genVars,
                   tripArgs, day, ped_i, err>>

\* line 412 / 427 is false: on to the next pedestrian, the next day, or the
\* end of the loops
NextPedestrian ==
    /\ pc_trip = "loop"
    /\ ~HasBudget(peds[ped_i].remaining_time)
    /\ IF ped_i < Len(peds)
       THEN /\ ped_i' = ped_i + 1
            /\ pc_trip' = "allow"
            /\ day' = day
       ELSE IF day + 1 < days
       THEN /\ ped_i' = 1
            /\ pc_trip' = "allow"
            /\ day' = day + 1
       ELSE /\ ped_i' = ped_i
            /\ pc_trip' = "sort"
            /\ day' = day
    /\ last_trip' = NoTrip
    /\ UNCHANGED <<storeVars, rngVars, poiVars, runVars, genVars, tripArgs,
                   paths, durations, trips, peds, err>>

\* line 432-433: trips is sorted and returned
ReturnTrips ==
    /\ pc_trip = "sort"
    /\ trips' = SortByStart(trips)
    /\ pc_trip' = "done"
    /\ last_trip' = NoTrip
    /\ UNCHANGED <<storeVars, rngVars, poiVars, runVars, genVars, tripArgs,
                   day, ped_i, paths, durations, peds, err>>

\* level and daily_travel_time (in seconds) of the pedestrians handed to
\* generate_trips: one level for each value of round(level/3) up to 2, with
\* no budget, small ones (one of them odd: half of it is not a whole number
\* of seconds) and a larger one
SampledProfiles ==
    { [level |-> 0, daily_travel_time |-> 0],
      [level |-> 0, daily_travel_time |-> 2],
      [level |-> 0, daily_travel_time |-> 3],
      [level |-> 2, daily_travel_time |-> 2],
      [level |-> 5, daily_travel_time |-> 4] }

\* the Pedestrian objects that can be built over the POI list ps, with the
\* distribution get_poi_distribution returns for it
Pedestrians(id, ps, profiles) ==
    { Pedestrian(id, home, ps, distr, prof.level, prof.daily_travel_time, index) :
        home \in Range(ps), distr \in {d.value : d \in get_poi_distribution(0)},
        prof \in profiles, index \in 0..(Len(ps) - 3) }

\* generate_trips is called with one of these numbers of days for a
\* population of one of these sizes and profiles, MaxPedDays pedestrian-days
\* at most
InitTripsWith(day_counts, ped_counts, profiles) ==
    /\ seed = None
    /\ rnd_k = 0
    /\ np_k = 0
    /\ \E blocked \in SUBSET {<<1, 2>>} : reach = (Edges \X Edges) \ blocked
    /\ nr_pois = 0
    /\ nr_core_pois = 2
    /\ edges = <<>>
    /\ pool = {}
    /\ core_pois = NoCore
    /\ pois = PoiList(NrPois)
    /\ pc_poi = "done"
    /\ err = ""
    /\ run = 1
    /\ first_run = NoFirstRun
    /\ favorites = FALSE
    /\ common_favorites = TRUE
    /\ nr_pedestrians \in ped_counts
    /\ gen = NoGen
    /\ poi_distr = NoDistr
    /\ \E built \in [1..nr_pedestrians -> Pedestrians(0, pois, profiles)] :
        peds = [i \in 1..nr_pedestrians |-> [built[i] EXCEPT !.id = i - 1]]
    /\ pc_gen = "done"
    /\ days \in day_counts
    /\ days * nr_pedestrians <= MaxPedDays
    /\ week_cycle \in BOOLEAN
    /\ day_night_cycle \in BOOLEAN
    /\ average_stay_duration \in 1..MaxStay
    /\ \E d \in 1..MaxWalk : walk = [p \in Edges \X Edges |-> d]
    /\ day = -1
    /\ ped_i = 1
    /\ paths = <<>>
    /\ durations = <<>>
    /\ trips = <<>>
    /\ last_trip = NoTrip
    /\ pc_trip = "allow"
    /\ IdleStore

InitTrips == InitTripsWith(0..MaxDays, 1..NrPeds, SampledProfiles)

NextTrips ==
    \/ AddAllowance
    \/ OutwardLeg
    \/ LegFails
    \/ DepartureFails
    \/ FinishTrip
    \/ NextPedestrian
    \/ ReturnTrips

SpecTrips == InitTrips /\ [][NextTrips]_vars

-----------------------------------------------------------------------------
(* generate_trip called on its own for one pedestrian, whatever budget the *)
(* pedestrian has left                                                      *)

\* remaining_time of the pedestrian at the call, in seconds
SampledBudgets == {-1, 0, 1, 3}

InitTripCall ==
    /\ seed = None
    /\ rnd_k = 0
    /\ np_k = 0
    /\ \E blocked \in SUBSET {<<1, 2>>} : reach = (Edges \X Edges) \ blocked
    /\ nr_pois = 0
    /\ nr_core_pois = 2
    /\ edges = <<>>
    /\ pool = {}
    /\ core_pois = NoCore
    /\ pois = PoiList(NrPois)
    /\ pc_poi = "done"
    /\ err = ""
    /\ run = 1
    /\ first_run = NoFirstRun
    /\ favorites = FALSE
    /\ common_favorites = TRUE
    /\ nr_pedestrians = 1
    /\ gen = NoGen
    /\ poi_distr = NoDistr
    /\ \E ped \in Pedestrians(0, pois, SampledProfiles), budget \in SampledBudgets :
        peds = <<[ped EXCEPT !.remaining_time = HalfSeconds(budget)]>>
    /\ pc_gen = "done"
    /\ days = 1
    /\ week_cycle \in BOOLEAN
    /\ day_night_cycle \in BOOLEAN
    /\ average_stay_duration \in 1..MaxStay
    /\ \E d \in 1..MaxWalk : walk = [p \in Edges \X Edges |-> d]
    /\ day \in {-1, 0}
    /\ ped_i = 1
    /\ paths = <<>>
    /\ durations = <<>>
    /\ trips = <<>>
    /\ last_trip = NoTrip
    /\ pc_trip = "call"
    /\ IdleStore

NextTripCall ==
    \/ OutwardLeg
    \/ LegFails
    \/ DepartureFails
    \/ FinishTrip

SpecTripCall == InitTripCall /\ [][NextTripCall]_vars

-----------------------------------------------------------------------------
(* The two loops to their end: get_pois from the start, or generate_trips  *)
(* for one pedestrian of any profile, or for two of level 0 over one day.   *)
(* The program is sequential: a step that can be taken is taken.            *)

\* the profiles of level 0
LoopProfiles == {prof \in SampledProfiles : prof.level = 0}

InitLoops ==
    \/ InitPoi
    \/ InitTripsWith(0..MaxDays, {1}, SampledProfiles)
    \/ InitTripsWith({1}, {2}, LoopProfiles)

NextLoops ==
    \/ NextPoi
    \/ NextTrips

SpecLoops == InitLoops /\ [][NextLoops]_vars /\ WF_vars(NextLoops)

-----------------------------------------------------------------------------
(* Emitter: store_trips, store_routes *)

\* a number written as an XML attribute: its value in hundredths and the
\* number of decimals written; "{}".format(n) of an integer n
WholeText(n) == [hundredths |-> 100 * n, decimals |-> 0]

\* "{:.2f}".format(n) of an integer n
TwoDecimals(n) == [hundredths |-> 100 * n, decimals |-> 2]

\* int(text) of an attribute written without decimals
ParseInt(text) == text.hundredths \div 100

\* Trip.to_xml: the id and depart attributes of the person element
to_xml(trip) == [id |-> <<"ped", trip.trip_id>>, depart |-> WholeText(trip.start_time)]

\* line 463-465: the dict person id -> int(depart); a later element of the
\* same id replaces an earlier one
trip_departs(file) ==
    [id \in {file[i].id : i \in 1..Len(file)} |->
        LET last == CHOOSE i \in 1..Len(file) :
                        file[i].id = id /\ \A j \in (i + 1)..Len(file) : file[j].id # id
        IN  ParseInt(file[last].depart)]

\* departure times duarouter may write in place of the one it was given,
\* in hundredths of a second
SampledRouterTimes == {0, 6050, 8634000}

\* what duarouter --repair may write for the persons of the trips file: some
\* of them, in some order, each with its own or another departure time
DuarouterOutputs(file) ==
    UNION { { [i \in 1..n |->
                 [id |-> file[order[i]].id,
                  depart |-> IF departs[i] = -1
                             THEN TwoDecimals(ParseInt(file[order[i]].depart))
                             ELSE [hundredths |-> departs[i], decimals |-> 2]]] :
              order \in {o \in [1..n -> 1..Len(file)] :
                            \A a \in 1..n, b \in 1..n : a # b => o[a] # o[b]},
              departs \in [1..n -> SampledRouterTimes \cup {-1}] } :
            n \in 0..Len(file) }

\* (mutation of FixedDepart: the element keeps the time duarouter wrote)
RouterDepart(person, departs) == person.depart

\* line 474-476: the depart attribute store_routes sets on a person element
FixedDepart(person, departs) == TwoDecimals(departs[person.id])

\* line 472-477: the list person_elems of (depart, elem) pairs
person_elems(out, departs) ==
    [i \in 1..Len(out) |->
        <<departs[out[i].id], [out[i] EXCEPT !.depart = FixedDepart(out[i], departs)]>>]

\* sorted(person_elems, key=lambda x: x[0]): a stable sort
RECURSIVE SortByDepart(_)
SortByDepart(es) ==
    IF es = <<>> THEN <<>>
    ELSE LET front == SortByDepart(SubSeq(es, 1, Len(es) - 1))
             x == es[Len(es)]
             k == Cardinality({i \in 1..Len(front) : front[i][1] <= x[1]})
         IN  SubSeq(front, 1, k) \o <<x>> \o SubSeq(front, k + 1, Len(front))

\* store_trips: one person element per Trip, in list order
store_trips ==
    /\ pc_store = "idle"
    /\ pc_trip = "done"
    /\ trips_file' = [i \in 1..Len(trips) |-> to_xml(trips[i])]
    /\ pc_store' = "trips"
    /\ UNCHANGED <<rngVars, poiVars, runVars, genVars, tripVars, router_out,
                   routes_file, peds, err>>

\* store_routes: duarouter writes the routes file, then the departure times
\* are read back from the trips file, set on the person elements, and the
\* elements are written in ascending order of departure
store_routes ==
    /\ pc_store = "trips"
    /\ \E out \in DuarouterOutputs(trips_file) :
        LET sorted == SortByDepart(person_elems(out, trip_departs(trips_file)))
        IN  /\ router_out' = out
            /\ routes_file' = [i \in 1..Len(sorted) |-> sorted[i][2]]
    /\ pc_store' = "routes"
    /\ UNCHANGED <<rngVars, poiVars, runVars, genVars, tripVars, trips_file,
                   peds, err>>

\* ids and start times of the Trips handed to store_trips
SampledTripIds == {<<0, 0>>, <<0, 1>>, <<1, 0>>}

SampledStarts == {0, (24 * 60 - 1) * 60, 24 * 60 * 60}

\* two-leg Trips with these ids and start times
SampledTrips ==
    { Trip(id, id[1], start - (start % (24 * 60 * 60)), <<<<1, 2>>, <<2, 1>>>>,
           LegTimes(<<start % (24 * 60 * 60)>>, 2, <<1, 1>>, <<0>>), <<1, 1>>, <<0>>) :
        id \in SampledTripIds, start \in SampledStarts }

\* the lists generate_trips can return over these Trips: distinct ids, in
\* ascending order of start_time
SampledTripLists ==
    { ts \in UNION {[1..n -> SampledTrips] : n \in 0..MaxStored} :
        /\ \A a \in 1..Len(ts), b \in 1..Len(ts) : a # b => ts[a].trip_id # ts[b].trip_id
        /\ \A a \in 1..Len(ts), b \in 1..Len(ts) :
              a < b => ts[a].start_time <= ts[b].start_time }

InitStore ==
    /\ seed = None
    /\ rnd_k = 0
    /\ np_k = 0
    /\ reach = Edges \X Edges
    /\ nr_pois = 0
    /\ nr_core_pois = 2
    /\ edges = <<>>
    /\ pool = {}
    /\ core_pois = NoCore
    /\ pois = PoiList(NrPois)
    /\ pc_poi = "done"
    /\ err = ""
    /\ run = 1
    /\ first_run = NoFirstRun
    /\ favorites = FALSE
    /\ common_favorites = TRUE
    /\ nr_pedestrians = 0
    /\ gen = NoGen
    /\ poi_distr = NoDistr
    /\ peds = <<>>
    /\ pc_gen = "done"
    /\ days = MaxDays
    /\ week_cycle = TRUE
    /\ day_night_cycle = TRUE
    /\ average_stay_duration = 1
    /\ walk = [p \in Edges \X Edges |-> 1]
    /\ day = MaxDays - 1
    /\ ped_i = 1
    /\ paths = <<>>
    /\ durations = <<>>
    /\ trips \in SampledTripLists
    /\ last_trip = NoTrip
    /\ pc_trip = "done"
    /\ IdleStore

NextStore ==
    \/ store_trips
    \/ store_routes

SpecStore == InitStore /\ [][NextStore]_vars

-----------------------------------------------------------------------------
(* Two independent runs of the program with the same seed, parameters and  *)
(* routing oracle: the second starts from scratch once the first has ended. *)

Rerun ==
    /\ run = 1
    /\ pc_poi \in {"done", "error"}
    /\ first_run' = [pois |-> pois, core |-> core_pois,
                     outcome |-> IF pc_poi = "done" THEN "done" ELSE err]
    /\ run' = 2
    /\ rnd_k' = 0
    /\ np_k' = 0
    /\ edges' = AllEdges
    /\ pool' = {}
    /\ core_pois' = NoCore
    /\ pois' = <<>>
    /\ pc_poi' = "start"
    /\ err' = ""
    /\ UNCHANGED <<storeVars, seed, reach, nr_pois, nr_core_pois, genVars, tripVars, peds>>

InitRuns == InitPoiWith(0..MaxSeed)

NextRuns == NextPoi \/ Rerun

SpecRuns == InitRuns /\ [][NextRuns]_vars

-----------------------------------------------------------------------------
(* Claims about the preference model *)

\* C3: for every configuration of the two bias switches and every non-empty
\* POI set, get_poi_distribution returns one weight per POI and the weights
\* sum to 1: once home and level are drawn, the call returns a distribution.
C3_DistributionSumsToOne ==
    /\ pc_gen = "error" => err # "ZeroDivisionError"
    /\ pc_gen = "distr"
          => /\ Len(poi_distr.num) = Len(pois)
             /\ poi_distr.den # 0
             /\ Sum(poi_distr.num) = poi_distr.den

\* C18: a Pedestrian built with a home of the POI set has home removed
\* from its POI list and home's own probability added to a POI next to it:
\* every other POI keeps the probability of its own position, there is one
\* probability per remaining POI, and the sum is unchanged.
C18_HomeMassFolded ==
    (pc_gen = "loop" /\ Len(peds) > 0)
        => LET ped == peds[Len(peds)]
               h == IndexOf(pois, ped.home)
               kept(j) == IF j < h THEN j ELSE j - 1
           IN  /\ ped.pois = RemoveAt(pois, h)
               /\ Len(ped.poi_distr.num) = Len(ped.pois)
               /\ Sum(ped.poi_distr.num) = Sum(poi_distr.num)
               /\ \E a \in (1..Len(pois)) \ {h} :
                    /\ a \in {h - 1, h + 1}
                    /\ \A j \in (1..Len(pois)) \ {h} :
                         ped.poi_distr.num[kept(j)]
                            = poi_distr.num[j]
                              + (IF j = a THEN poi_distr.num[h] ELSE 0)

-----------------------------------------------------------------------------
(* Claims about POI selection *)

\* the candidates of the pool that are pairwise connected both ways
IsClique(S) == \A a \in S, b \in S : a # b => Bidirectional(a, b)

\* the edges of the component connected both ways with the first core anchor
Compatible == {e \in Edges : Bidirectional(e, core_pois.first)}

\* C4: two runs with the same non-null seed, parameters and oracle produce
\* identical results: the second run ends as the first did, with the same
\* core anchors and the same POI set.
C4_SameSeedSameResult ==
    (run = 2 /\ seed # None /\ pc_poi = "done")
        => /\ first_run.outcome = "done"
           /\ pois = first_run.pois

\* C9: with nr_pois > 0 the POI set never exceeds nr_pois entries, and
\* get_pois returns exactly nr_pois entries whenever at least nr_pois edges
\* of the component connect both ways with the first core anchor.
C9_PoiCount ==
    (nr_pois > 0 /\ pc_poi \in {"grow", "done"})
        => /\ Len(pois) <= nr_pois
           /\ (pc_poi = "done" /\ Cardinality(Compatible) >= nr_pois)
                  => Len(pois) = nr_pois

\* C9 witness: get_pois returned a full POI set while unexamined edges remain
C9_Witness ==
    /\ pc_poi = "done"
    /\ nr_pois = MaxNrPois
    /\ Len(pois) = nr_pois
    /\ Cardinality(Compatible) > nr_pois
    /\ Len(edges) > 0

\* C10: the anchor set get_core_pois returns is a maximum clique of the
\* candidate graph: pairwise connected both ways, and no larger set of
\* sampled candidates is pairwise connected both ways.
C10_CoreIsMaximumClique ==
    pc_poi = "core"
        => /\ core_pois.members \subseteq pool
           /\ IsClique(core_pois.members)
           /\ \A S \in SUBSET pool :
                 IsClique(S) => Cardinality(S) <= Cardinality(core_pois.members)

\* C11: when no two sampled core candidates are reachable from each other in
\* both directions, the selector ends with InsufficientConnectivityError:
\* not with another error, and not by returning an empty anchor set.
C11_InsufficientConnectivity ==
    /\ (pc_poi = "error" /\ pool # {} /\ PoiGraphNodes(pool) = {})
          => err = "InsufficientConnectivityError"
    /\ pc_poi = "core" => core_pois.members # {}

\* the edges get_pois has drawn and removed from `edges`
Examined == Edges \ Range(edges)

\* C12: get_pois examines each edge at most once and admits it iff the
\* oracle has a path from it to the first core anchor and back: every POI is
\* connected both ways with that anchor, no POI is listed twice, and with
\* nr_pois = 0 the POI set is exactly the set of such edges.
C12_AdmittedIffBidirectional ==
    pc_poi \in {"grow", "done"}
        => /\ Cardinality(Range(edges)) = Len(edges)
           /\ Cardinality(Range(pois)) = Len(pois)
           /\ Range(pois) \subseteq Examined
           /\ \A e \in Examined : e \in Range(pois) <=> Bidirectional(e, core_pois.first)
           /\ (pc_poi = "done" /\ nr_pois = 0) => Range(pois) = Compatible

\* C12 witness: with nr_pois = 0 get_pois returned after admitting some edges
\* and rejecting one that has a path to the anchor but none back
C12_Witness ==
    /\ pc_poi = "done"
    /\ nr_pois = 0
    /\ edges = <<>>
    /\ Len(pois) >= 2
    /\ \E e \in Examined :
        /\ has_path(e, core_pois.first)
        /\ ~has_path(core_pois.first, e)
        /\ e \notin Range(pois)

-----------------------------------------------------------------------------
(* Claims about the itinerary scheduler *)

\* the Trips that exist in a state: the one generate_trip has just returned
\* and those generate_trips has collected
BuiltTrips == Range(trips) \cup (IF last_trip = NoTrip THEN {} ELSE {last_trip})

\* the pedestrian a Trip belongs to
Owner(trip) == CHOOSE i \in 1..Len(peds) : peds[i].id = trip.ped_id

\* the warm-up loop of generate_trips (line 409-413) is over for pedestrian i
WarmUpOver(i) == day > -1 \/ ped_i > i \/ pc_trip \in {"sort", "done"}

\* C1: every Trip built by generate_trip has as many times and durations as
\* legs, and one wait time fewer than legs.
C1_TripListLengths ==
    \A trip \in BuiltTrips :
        /\ Len(trip.times) = Len(trip.paths)
        /\ Len(trip.durations) = Len(trip.paths)
        /\ Len(trip.wait_times) = Len(trip.paths) - 1

\* C1 witness: generate_trip has just returned a Trip of three legs, with two
\* wait times, and a Trip of two legs is stored
C1_Witness ==
    /\ last_trip # NoTrip
    /\ Len(last_trip.paths) = 3
    /\ Len(last_trip.wait_times) = 2
    /\ \E i \in 1..Len(trips) : Len(trips[i].paths) = 2

\* C2: the list generate_trips returns is sorted by start_time ascending,
\* and sorting it again by start_time leaves it unchanged.
C2_ReturnedSorted ==
    pc_trip = "done"
        => /\ \A i \in 1..Len(trips), j \in 1..Len(trips) :
                 i < j => trips[i].start_time <= trips[j].start_time
           /\ SortByStart(trips) = trips

\* C2 witness: generate_trips returned two trips of the same day in the
\* reverse of the order they were generated in
C2_Witness ==
    /\ pc_trip = "done"
    /\ Len(trips) = 2
    /\ trips[1].ped_id > trips[2].ped_id
    /\ trips[1].start_time < trips[2].start_time
    /\ trips[2].start_time < 24 * 60 * 60

\* C5: every trip has at least 2 legs and at most max(1, round(level/3)) + 1
\* legs; a pedestrian of level 0 never gets a trip of more than 2 legs.
C5_LegCount ==
    \A trip \in BuiltTrips :
        LET level == peds[Owner(trip)].level IN
        /\ Len(trip.paths) >= 2
        /\ Len(trip.paths) <= Max(1, max_trips(level)) + 1
        /\ level = 0 => Len(trip.paths) = 2

\* C5 witness: a pedestrian of level 0 has a trip of 2 legs and a pedestrian
\* of level 5 one of 3 legs
C5_Witness ==
    /\ \E i \in 1..Len(trips) :
        peds[Owner(trips[i])].level = 0 /\ Len(trips[i].paths) = 2
    /\ \E i \in 1..Len(trips) :
        peds[Owner(trips[i])].level = 5 /\ Len(trips[i].paths) = 3

\* C6 as stated: a pedestrian with daily_travel_time = 0 has generated
\* exactly one trip when its warm-up day is over.
C6_OneWarmUpTrip ==
    \A i \in 1..Len(peds) :
        (peds[i].daily_travel_time = 0 /\ WarmUpOver(i) /\ day = -1)
            => peds[i].trip_count = 1

\* C6: a pedestrian with daily_travel_time = 0 generates no trip at all,
\* neither on the warm-up day nor on a later day: its remaining_time stays
\* 0, its trip_count stays 0 and no Trip carries its id.
C6_NoBudgetNoTrip ==
    \A i \in 1..Len(peds) :
        peds[i].daily_travel_time = 0
            => /\ peds[i].trip_count = 0
               /\ peds[i].remaining_time = 0
               /\ \A trip \in BuiltTrips : trip.ped_id # peds[i].id

\* C6 witness: generate_trips has returned after a day on which a pedestrian
\* with budget travelled and one with daily_travel_time = 0 did not
C6_Witness ==
    /\ pc_trip = "done"
    /\ days >= 1
    /\ Len(trips) >= 1
    /\ \E i \in 1..Len(peds) :
        peds[i].daily_travel_time = 0 /\ peds[i].trip_count = 0

\* C7: in every trip no leg has the pedestrian's home as both its origin
\* and its destination: the first leg leaves home for another POI and the
\* leg home starts at another POI.
C7_NoLegFromHomeToHome ==
    \A trip \in BuiltTrips :
        LET home == peds[Owner(trip)].home
            n == Len(trip.paths)
        IN  /\ \A k \in 1..n : trip.paths[k] # <<home, home>>
            /\ trip.paths[1][1] = home /\ trip.paths[1][2] # home
            /\ trip.paths[n][2] = home /\ trip.paths[n][1] # home

\* C7 witness: a trip of three legs whose pedestrian lives at a POI of the
\* list it was built from
C7_Witness ==
    /\ last_trip # NoTrip
    /\ Len(last_trip.paths) = 3
    /\ peds[Owner(last_trip)].home \in Range(pois)
    /\ last_trip.paths[2][1] # last_trip.paths[2][2]

\* the step builds a Trip for pedestrian i
BuildsTripFor(i) == last_trip' # NoTrip /\ last_trip'.ped_id = peds[i].id

\* C13: a pedestrian's trip_count grows by exactly 1 with every trip built
\* for it (warm-up trips included) and never otherwise, so trip ids are
\* pairwise distinct and, per pedestrian, their sequence numbers increase
\* strictly in generation order.
C13_TripCounter ==
    /\ [](/\ \A t1 \in BuiltTrips, t2 \in BuiltTrips :
                t1.trip_id = t2.trip_id => t1 = t2
          /\ \A t \in BuiltTrips :
                /\ t.trip_id[1] = t.ped_id
                /\ t.trip_id[2] >= 0
                /\ t.trip_id[2] < peds[Owner(t)].trip_count
          /\ last_trip # NoTrip
                => last_trip.trip_id[2] = peds[Owner(last_trip)].trip_count - 1
          /\ pc_trip # "done"
                => \A i \in 1..Len(trips), j \in 1..Len(trips) :
                      (i < j /\ trips[i].ped_id = trips[j].ped_id)
                          => trips[i].trip_id[2] < trips[j].trip_id[2])
    /\ [][\A i \in 1..Len(peds) :
            peds'[i].trip_count
                = peds[i].trip_count + (IF BuildsTripFor(i) THEN 1 ELSE 0)]_vars

\* C13 witness: two trips of one pedestrian are stored, numbered after its
\* warm-up trip
C13_Witness ==
    \E i \in 1..Len(trips), j \in 1..Len(trips) :
        /\ i < j
        /\ trips[i].ped_id = trips[j].ped_id
        /\ trips[i].trip_id[2] >= 1
        /\ trips[j].trip_id[2] = trips[i].trip_id[2] + 1

\* the step leaves the outward loop of generate_path_sequence
StopsLoop == InTrip /\ pc_trip' \in {"loop", "returned"}

\* the step is an iteration of the outward loop
AdvancesLoop == Len(paths') = Len(paths) + 1

\* C14 as stated: the outward loop stops only once the number of legs has
\* reached round(level/3) and remaining_time is exhausted as well.
C14_StopsWhenBoth ==
    [][StopsLoop
          => /\ Len(paths) >= 1
             /\ Len(paths) >= max_trips(peds[ped_i].level)
             /\ peds[ped_i].remaining_time <= 0]_vars

\* C14: the outward loop makes one leg whatever remaining_time is, and after
\* that stops as soon as the number of legs has reached round(level/3) or
\* remaining_time is exhausted (<= 0), whichever comes first.
C14_StopsWhenEither ==
    [][/\ StopsLoop
             => /\ Len(paths) >= 1
                /\ \/ Len(paths) >= max_trips(peds[ped_i].level)
                   \/ peds[ped_i].remaining_time <= 0
       /\ (AdvancesLoop /\ Len(paths) >= 1)
             => /\ Len(paths) < max_trips(peds[ped_i].level)
                /\ peds[ped_i].remaining_time > 0]_vars

\* C14 witness: generate_trip, called with no budget left for a pedestrian
\* of level 5, returned a trip of one outward leg
C14_Witness ==
    /\ pc_trip = "returned"
    /\ peds[1].level = 5
    /\ Len(last_trip.paths) = 2
    /\ peds[1].remaining_time + HalfSeconds(Sum(last_trip.durations))
           + HalfSeconds(Sum(last_trip.wait_times)) <= 0

\* C15: within one trip no POI is the destination of more than one outward
\* leg, hence no intermediate leg goes from a POI to itself.
C15_NoRepeatedDestination ==
    \A trip \in BuiltTrips :
        LET n == Len(trip.paths) IN
        /\ \A a \in 1..(n - 1), b \in 1..(n - 1) :
              a # b => trip.paths[a][2] # trip.paths[b][2]
        /\ \A k \in 2..(n - 1) : trip.paths[k][1] # trip.paths[k][2]

\* C16: on every simulated day d the pedestrian's remaining_time grows by
\* daily_travel_time/2 exactly when the week cycle is enabled and d mod 7 is
\* 0 or 1, and by the full daily_travel_time otherwise (remaining_time in
\* half seconds: by daily_travel_time, and by twice as much otherwise).
C16_WeekendHalving ==
    [][(pc_trip = "allow" /\ day >= 0 /\ pc_trip' = "loop")
          => peds'[ped_i].remaining_time
               = peds[ped_i].remaining_time
                 + (IF week_cycle /\ day % 7 \in {0, 1}
                    THEN peds[ped_i].daily_travel_time
                    ELSE HalfSeconds(peds[ped_i].daily_travel_time))]_vars

\* remaining_time of pedestrian i with the legs of the trip under
\* construction not yet charged
Balance(i) ==
    peds[i].remaining_time
        + (IF i = ped_i THEN HalfSeconds(Sum(durations)) ELSE 0)

\* C17: remaining_time is 0 before the warm-up allowance; every allowance
\* adds to it and every trip built takes its walking durations and wait
\* times from it, nothing else changes it; a deficit is carried, and once a
\* pedestrian's loop for a day is over its remaining_time is <= 0.
C17_BudgetConservation ==
    /\ [](\A i \in 1..Len(peds) :
            /\ (i # ped_i \/ pc_trip \in {"allow", "sort", "done"})
                  => peds[i].remaining_time <= 0
            /\ (day = -1 /\ (i > ped_i \/ (i = ped_i /\ pc_trip = "allow")))
                  => peds[i].remaining_time = 0)
    /\ [][pc_trip' # "error"
            => \A i \in 1..Len(peds) :
                 Balance(i)'
                   = Balance(i)
                     + (IF pc_trip = "allow" /\ i = ped_i
                        THEN Allowance(peds[i], day) ELSE 0)
                     - (IF BuildsTripFor(i)
                        THEN HalfSeconds(Sum(last_trip'.durations)
                                         + Sum(last_trip'.wait_times))
                        ELSE 0)]_vars

\* C17 witness: on the second day a trip with a wait has been built for a
\* pedestrian that carried a deficit into the day
C17_Witness ==
    /\ day = 1
    /\ last_trip # NoTrip
    /\ Sum(last_trip.wait_times) > 0
    /\ peds[ped_i].trip_count >= 3
    /\ peds[ped_i].remaining_time < 0

\* C19: with day/night modelling disabled the time-of-day distribution is
\* flat: every minute has the same positive probability, the probabilities
\* sum to 1, and a departure can be drawn from it.
C19_FlatTimeDistribution ==
    ~day_night_cycle
        => /\ flat_weight > 0
           /\ TimeDistrSumsToOne
           /\ DrawableMinutes # {}
           /\ ~(pc_trip = "error" /\ err = "ValueError")

\* C20: a leg the oracle has no path for aborts the trip generation of the
\* current pedestrian only: it never ends generate_trips.
C20_NoPathSparesTheRun ==
    ~(pc_trip = "error" /\ err = "OverflowError")

\* C21: every trip of the schedule generate_trips returns has start_time =
\* day * 86400 + times[0] for a day with 0 <= day < days and an offset
\* times[0] that is a whole minute in [0, 86400); warm-up trips are not in
\* the schedule, so no trip of it has a negative start_time.
C21_StartTimes ==
    /\ \A i \in 1..Len(trips) :
        /\ trips[i].times[1] % 60 = 0
        /\ trips[i].times[1] >= 0
        /\ trips[i].times[1] < 86400
        /\ \E d \in 0..(days - 1) :
              trips[i].start_time = d * 86400 + trips[i].times[1]
        /\ trips[i].start_time >= 0
    /\ (last_trip # NoTrip /\ day = -1)
          => /\ last_trip.start_time < 0
             /\ last_trip \notin Range(trips)

\* C21 witness: generate_trips returned a trip of the second day that leaves
\* in the last minute of the day, for a pedestrian that made a warm-up trip
C21_Witness ==
    /\ pc_trip = "done"
    /\ days = 2
    /\ \E i \in 1..Len(trips) :
        /\ trips[i].start_time = 86400 + (24 * 60 - 1) * 60
        /\ trips[i].trip_id[2] >= 1

\* get_pois is over, and generate_trips, if it was called, is over
LoopsOver ==
    /\ pc_poi \in {"done", "error"}
    /\ pc_trip \in {"idle", "done", "error"}

\* C22: generate_trips comes to an end for every population, number of days
\* and daily budget (every trip takes at least one second), and the growth
\* loop of get_pois comes to an end: nothing but an exception keeps
\* generate_trips from returning, and nothing keeps get_pois from returning
\* once get_core_pois has.
C22_Termination ==
    /\ [](pc_trip = "error" => err \in {"OverflowError", "ValueError"})
    /\ [][(pc_poi \in {"core", "grow"}) => (pc_poi' \in {"grow", "done"})]_vars
    /\ <>LoopsOver

\* C22 witness: generate_trips returned after two pedestrians each made a
\* warm-up trip and a trip on the first day
C22_Witness ==
    /\ pc_trip = "done"
    /\ Len(trips) = 2
    /\ Len(peds) = 2
    /\ \A i \in 1..2 : peds[i].trip_count = 2 /\ peds[i].remaining_time <= 0

-----------------------------------------------------------------------------
(* Claims about the emitter *)

\* C8: after store_routes, however duarouter rewrote departure times, every
\* person element of the routes file carries the departure time the trips
\* file records for the same person id.
C8_DepartsReconciled ==
    pc_store = "routes"
        => /\ Len(routes_file) = Len(router_out)
           /\ \A i \in 1..Len(routes_file) :
                \E j \in 1..Len(trips_file) :
                    /\ trips_file[j].id = routes_file[i].id
                    /\ trips_file[j].depart.hundredths
                           = routes_file[i].depart.hundredths

\* C8 witness: store_routes has run on two persons that duarouter wrote in
\* the reverse order, both with a departure time the trips file does not
\* record for them
C8_Witness ==
    /\ pc_store = "routes"
    /\ Len(router_out) = 2
    /\ router_out[1].id = trips_file[2].id
    /\ router_out[2].id = trips_file[1].id
    /\ router_out[1].depart.hundredths # trips_file[2].depart.hundredths
    /\ router_out[2].depart.hundredths # trips_file[1].depart.hundredths
    /\ routes_file[1].id = trips_file[1].id
    /\ trips_file[1].depart.hundredths < trips_file[2].depart.hundredths

=============================================================================
